---------------------------- MODULE Spec2Model ----------------------------
(***************************************************************************)
(* Model of the Apple SPI keyboard driver, drivers/input/apple_spi_kbd.c.  *)
(*                                                                         *)
(* The driver polls the keyboard controller over SPI.  Each poll reads one *)
(* 256-byte packet, validates its framing, copies the embedded report into *)
(* priv->new, emits key events for the difference between priv->old and    *)
(* priv->new through input_add_keycode(), and stores priv->new as          *)
(* priv->old.                                                              *)
(*                                                                         *)
(* The module also models the keycode translation through the three       *)
(* tables the driver registers, and the UTF-8 to code page 437 converter,  *)
(* drivers/video/utf8_cp437.c.                                             *)
(*                                                                         *)
(* Four specifications are given:                                          *)
(*   Spec      the poll loop: any number of polls, from zeroed private     *)
(*             data, over a small set of packets (valid, malformed, and    *)
(*             polls whose bus claim fails);                               *)
(*   SpecDiff  one accepted poll from every stored report of a larger set  *)
(*             to every report of that set: the difference computation as  *)
(*             a function of (priv->old, received report).                 *)
(*   SpecXlate one table lookup, for every keycode and modifier byte;      *)
(*   SpecUtf8  convert_utf8_to_cp437() fed a first byte and, after a lead  *)
(*             byte, the continuation bytes of its sequence.               *)
(***************************************************************************)
EXTENDS Integers, Sequences, FiniteSets, TLC

VARIABLES
    old,        \* priv->old: the report of the last accepted poll
    new,        \* priv->new: the report received by the last accepted poll
    packet,     \* the local packet buffer of the last poll, as validated
    events,     \* the input_add_keycode() calls of the last poll, in order
    ret,        \* the return value of the last poll
    bus,        \* the SPI bus operations of the last poll, in order
    old_entry,  \* history: priv->old on entry to the last poll
    new_entry,  \* history: priv->new on entry to the last poll
    spi_ret,    \* the results of the dm_spi_* calls of the last poll
    steps,      \* the statements executed by the last poll, in order
    last_frame, \* history: the report in the buffer of the last poll that
                \* returned 1
    last_any,   \* history: per keycode, whether the most recent event with
                \* that keycode was a press (FALSE when there was none)
    last_mod,   \* history: the same, counting only the events of
                \* apple_spi_kbd_service_modifiers()
    xl_key,     \* translation: the keycode handed to the input layer
    xl_mods,    \* translation: the modifier byte in force
    xl_out,     \* translation: <<ch>> for the character produced, <<>>
                \* for none
    xl_called,  \* translation: whether the lookup has run
    esc,        \* UTF-8 decoder: *esc, the state the caller holds
    esc_entry,  \* history: *esc before the first byte was fed
    fed,        \* history: the bytes fed to convert_utf8_to_cp437()
    rets        \* history: its return values, one per byte fed

\* the variables of the keyboard driver
kbd_vars == <<old, new, packet, events, ret, bus, old_entry, new_entry,
              spi_ret, steps, last_frame, last_any, last_mod>>

\* the variables of the keycode translation
xl_vars == <<xl_key, xl_mods, xl_out, xl_called>>

\* the variables of the UTF-8 decoder
utf8_vars == <<esc, esc_entry, fed, rets>>

vars == <<kbd_vars, xl_vars, utf8_vars>>

---------------------------------------------------------------------------
(* Program constants *)

HID_MOD_LEFTCTRL == 1
HID_MOD_LEFTSHIFT == 2
HID_MOD_RIGHTCTRL == 16
HID_MOD_RIGHTSHIFT == 32

HID_KEY_LEFTCTRL == 224
HID_KEY_LEFTSHIFT == 225
HID_KEY_RIGHTCTRL == 228
HID_KEY_RIGHTSHIFT == 229

KBD_REPORTID == 1
KBD_DEVICE == 1
PACKET_READ == 32
MSG_REPORT == 16

\* sizeof(priv->new.keycode): u8 keycode[6]
sizeof_keycode == 6

\* sizeof(struct apple_spi_kbd_report): ten u8 members, no padding
sizeof_report == 1 + 1 + 1 + sizeof_keycode + 1

---------------------------------------------------------------------------
(* Bounds of the model *)

\* ordinary keycodes used in the slots are 4..MaxKey (4 is 'a')
MaxKey == 5

\* the reserved and fn bytes range over 0..MaxAux
MaxAux == 1

---------------------------------------------------------------------------
(* u8 arithmetic *)

\* bit n of x, as 0 or 1
Bit(x, n) == (x \div (2 ^ n)) % 2

\* a & b on 8-bit values
BitAnd(a, b) ==
      Bit(a, 0) * Bit(b, 0)
    + 2 * (Bit(a, 1) * Bit(b, 1))
    + 4 * (Bit(a, 2) * Bit(b, 2))
    + 8 * (Bit(a, 3) * Bit(b, 3))
    + 16 * (Bit(a, 4) * Bit(b, 4))
    + 32 * (Bit(a, 5) * Bit(b, 5))
    + 64 * (Bit(a, 6) * Bit(b, 6))
    + 128 * (Bit(a, 7) * Bit(b, 7))

\* a ^ b on 8-bit values
BitXor(a, b) ==
      ((Bit(a, 0) + Bit(b, 0)) % 2)
    + 2 * ((Bit(a, 1) + Bit(b, 1)) % 2)
    + 4 * ((Bit(a, 2) + Bit(b, 2)) % 2)
    + 8 * ((Bit(a, 3) + Bit(b, 3)) % 2)
    + 16 * ((Bit(a, 4) + Bit(b, 4)) % 2)
    + 32 * ((Bit(a, 5) + Bit(b, 5)) % 2)
    + 64 * ((Bit(a, 6) + Bit(b, 6)) % 2)
    + 128 * ((Bit(a, 7) + Bit(b, 7)) % 2)

---------------------------------------------------------------------------
(* Data *)

Slots == 0 .. (sizeof_keycode - 1)

\* a keycode array from a tuple of six values
Arr(s) == [i \in Slots |-> s[i + 1]]

NoKeys == Arr(<<0, 0, 0, 0, 0, 0>>)

\* struct apple_spi_kbd_report
Report(id, m, rs, k, f) ==
    [reportid |-> id, modifiers |-> m, reserved |-> rs, keycode |-> k, fn |-> f]

ZeroReport == Report(0, 0, 0, NoKeys, 0)

\* struct apple_spi_kbd_packet with the struct apple_spi_kbd_msg and the
\* report embedded in its data; only the fields the driver reads are kept
Packet(f, d, t, md, c, r) ==
    [flags |-> f, device |-> d, msg_type |-> t, msg_device |-> md,
     cmdlen |-> c, report |-> r]

\* memset(&packet, 0, sizeof(packet))
ZeroPacket == Packet(0, 0, 0, 0, 0, ZeroReport)

\* a packet that passes the framing checks and carries report body r
ValidPacket(r) ==
    Packet(PACKET_READ, KBD_DEVICE, MSG_REPORT, KBD_DEVICE, sizeof_report,
           [r EXCEPT !.reportid = KBD_REPORTID])

---------------------------------------------------------------------------
(* Library calls made by the driver *)

\* memscan(addr, c, size): the offset of the first byte equal to c in the
\* size bytes at addr, or size (one past the area) when there is none
memscan(addr, c, size) ==
    IF \E j \in 0 .. (size - 1) : addr[j] = c
    THEN CHOOSE j \in 0 .. (size - 1) :
            addr[j] = c /\ \A h \in 0 .. (j - 1) : addr[h] # c
    ELSE size

\* input_add_keycode(input, new_keycode, release): the event handed to the
\* input layer.  slot records the call site: the index i of the key slot
\* being serviced, or -1 for a call from the modifier service.
input_add_keycode(log, new_keycode, release, slot) ==
    Append(log, [keycode |-> new_keycode, release |-> release, slot |-> slot])

---------------------------------------------------------------------------
(* The driver *)

\* one modifier test: an event for key when the bit mask of x is set, a
\* release when the bit mask of o is set
mod_event(log, x, o, mask, key) ==
    IF BitAnd(x, mask) # 0
    THEN input_add_keycode(log, key, BitAnd(o, mask) # 0, -1)
    ELSE log

\* variant: the release flag is taken from the new modifier byte
apple_spi_kbd_service_modifiers_newflag(priv, log) ==
    LET n == priv.new.modifiers
        x == BitXor(n, priv.old.modifiers)
    IN  mod_event(mod_event(mod_event(mod_event(log,
            x, n, HID_MOD_LEFTCTRL, HID_KEY_LEFTCTRL),
            x, n, HID_MOD_RIGHTCTRL, HID_KEY_RIGHTCTRL),
            x, n, HID_MOD_LEFTSHIFT, HID_KEY_LEFTSHIFT),
            x, n, HID_MOD_RIGHTSHIFT, HID_KEY_RIGHTSHIFT)

\* variant: the new modifier byte is tested instead of new ^ old
apple_spi_kbd_service_modifiers_level(priv, log) ==
    LET n == priv.new.modifiers
        o == priv.old.modifiers
    IN  mod_event(mod_event(mod_event(mod_event(log,
            n, o, HID_MOD_LEFTCTRL, HID_KEY_LEFTCTRL),
            n, o, HID_MOD_RIGHTCTRL, HID_KEY_RIGHTCTRL),
            n, o, HID_MOD_LEFTSHIFT, HID_KEY_LEFTSHIFT),
            n, o, HID_MOD_RIGHTSHIFT, HID_KEY_RIGHTSHIFT)

\* variant: the right-ctrl and right-shift bit masks are exchanged
apple_spi_kbd_service_modifiers_swapped(priv, log) ==
    LET o == priv.old.modifiers
        x == BitXor(priv.new.modifiers, o)
    IN  mod_event(mod_event(mod_event(mod_event(log,
            x, o, HID_MOD_LEFTCTRL, HID_KEY_LEFTCTRL),
            x, o, HID_MOD_RIGHTSHIFT, HID_KEY_RIGHTCTRL),
            x, o, HID_MOD_LEFTSHIFT, HID_KEY_LEFTSHIFT),
            x, o, HID_MOD_RIGHTCTRL, HID_KEY_RIGHTSHIFT)

\* variant: bit 2 (left alt) is tested as well, with the left-shift keycode
apple_spi_kbd_service_modifiers_alt(priv, log) ==
    LET o == priv.old.modifiers
        x == BitXor(priv.new.modifiers, o)
    IN  mod_event(mod_event(mod_event(mod_event(mod_event(log,
            x, o, HID_MOD_LEFTCTRL, HID_KEY_LEFTCTRL),
            x, o, HID_MOD_RIGHTCTRL, HID_KEY_RIGHTCTRL),
            x, o, HID_MOD_LEFTSHIFT, HID_KEY_LEFTSHIFT),
            x, o, HID_MOD_RIGHTSHIFT, HID_KEY_RIGHTSHIFT),
            x, o, 4, HID_KEY_LEFTSHIFT)

\* apple_spi_kbd_service_modifiers(): priv is [old, new], log the events
\* emitted so far; yields the extended log
apple_spi_kbd_service_modifiers(priv, log) ==
    LET n == priv.new.modifiers
        o == priv.old.modifiers
        x == BitXor(n, o)
        l1 == IF BitAnd(x, HID_MOD_LEFTCTRL) # 0
              THEN input_add_keycode(log, HID_KEY_LEFTCTRL,
                                     BitAnd(o, HID_MOD_LEFTCTRL) # 0, -1)
              ELSE log
        l2 == IF BitAnd(x, HID_MOD_RIGHTCTRL) # 0
              THEN input_add_keycode(l1, HID_KEY_RIGHTCTRL,
                                     BitAnd(o, HID_MOD_RIGHTCTRL) # 0, -1)
              ELSE l1
        l3 == IF BitAnd(x, HID_MOD_LEFTSHIFT) # 0
              THEN input_add_keycode(l2, HID_KEY_LEFTSHIFT,
                                     BitAnd(o, HID_MOD_LEFTSHIFT) # 0, -1)
              ELSE l2
        l4 == IF BitAnd(x, HID_MOD_RIGHTSHIFT) # 0
              THEN input_add_keycode(l3, HID_KEY_RIGHTSHIFT,
                                     BitAnd(o, HID_MOD_RIGHTSHIFT) # 0, -1)
              ELSE l3
    IN  l4

\* variant: slot i is compared with slot i of the other array only
apple_spi_kbd_service_key_positional(priv, log, i, released) ==
    LET n == IF released # 0 THEN priv.new.keycode ELSE priv.old.keycode
        o == IF released # 0 THEN priv.old.keycode ELSE priv.new.keycode
    IN  IF n[i] # o[i]
        THEN input_add_keycode(log, o[i], released # 0, i)
        ELSE log

\* variant: only the slots up to i of the other array are scanned
apple_spi_kbd_service_key_shortscan(priv, log, i, released) ==
    LET n == IF released # 0 THEN priv.new.keycode ELSE priv.old.keycode
        o == IF released # 0 THEN priv.old.keycode ELSE priv.new.keycode
    IN  IF memscan(n, o[i], i + 1) = i + 1
        THEN input_add_keycode(log, o[i], released # 0, i)
        ELSE log

\* variant: empty slots are skipped on release but not on press
apple_spi_kbd_service_key_halfzero(priv, log, i, released) ==
    LET n == IF released # 0 THEN priv.new.keycode ELSE priv.old.keycode
        o == IF released # 0 THEN priv.old.keycode ELSE priv.new.keycode
    IN  IF /\ memscan(n, o[i], sizeof_keycode) = sizeof_keycode
           /\ (released = 0 \/ o[i] # 0)
        THEN input_add_keycode(log, o[i], released # 0, i)
        ELSE log

\* variant: a key that left the report produces no event
apple_spi_kbd_service_key_norelease(priv, log, i, released) ==
    LET n == IF released # 0 THEN priv.new.keycode ELSE priv.old.keycode
        o == IF released # 0 THEN priv.old.keycode ELSE priv.new.keycode
    IN  IF /\ memscan(n, o[i], sizeof_keycode) = sizeof_keycode
           /\ released = 0
        THEN input_add_keycode(log, o[i], released # 0, i)
        ELSE log

\* apple_spi_kbd_service_key(input, i, released)
apple_spi_kbd_service_key(priv, log, i, released) ==
    LET n == IF released # 0 THEN priv.new.keycode ELSE priv.old.keycode
        o == IF released # 0 THEN priv.old.keycode ELSE priv.new.keycode
    IN  IF memscan(n, o[i], sizeof_keycode) = sizeof_keycode
        THEN input_add_keycode(log, o[i], released # 0, i)
        ELSE log

\* variant: each slot's press check runs before its release check
RECURSIVE service_keys_press_first(_, _, _)
service_keys_press_first(priv, log, i) ==
    IF i < sizeof_keycode
    THEN service_keys_press_first(priv,
            apple_spi_kbd_service_key(priv,
                apple_spi_kbd_service_key(priv, log, i, 0), i, 1),
            i + 1)
    ELSE log

\* the loop for (i = 0; i < sizeof(priv->new.keycode); i++) of
\* apple_spi_kbd_check(), from index i on
RECURSIVE service_keys(_, _, _)
service_keys(priv, log, i) ==
    IF i < sizeof_keycode
    THEN service_keys(priv,
            apple_spi_kbd_service_key(priv,
                apple_spi_kbd_service_key(priv, log, i, 1), i, 0),
            i + 1)
    ELSE log

\* variant: the command length is not compared
packet_ok_any_cmdlen(p) ==
    /\ p.flags = PACKET_READ
    /\ p.device = KBD_DEVICE
    /\ p.msg_type = MSG_REPORT
    /\ p.msg_device = KBD_DEVICE
    /\ p.report.reportid = KBD_REPORTID

\* the framing condition of apple_spi_kbd_check()
packet_ok(p) ==
    /\ p.flags = PACKET_READ
    /\ p.device = KBD_DEVICE
    /\ p.msg_type = MSG_REPORT
    /\ p.msg_device = KBD_DEVICE
    /\ p.cmdlen = sizeof_report
    /\ p.report.reportid = KBD_REPORTID

\* variant: priv->old is overwritten before the events are computed
accept_report_old_first(priv, report) ==
    LET p1 == [old |-> report, new |-> report]
        log == service_keys(p1, apple_spi_kbd_service_modifiers(p1, <<>>), 0)
    IN  [old |-> p1.new, new |-> p1.new, events |-> log]

\* the body of the accepting branch of apple_spi_kbd_check(): priv is
\* [old, new] on entry; yields the private data and the events on exit
accept_report(priv, report) ==
    LET p1 == [priv EXCEPT !.new = report]
        log == service_keys(p1, apple_spi_kbd_service_modifiers(p1, <<>>), 0)
    IN  [old |-> p1.new, new |-> p1.new, events |-> log]

\* sizeof(struct apple_spi_kbd_packet)
sizeof_packet == 1 + 1 + 2 + 2 + 2 + 246 + 2

\* one SPI call: its name, the bitlen argument and the flags argument
\* (bitlen 0 and flags "0" for the calls that take none)
SpiOp(op, bitlen, flags) == [op |-> op, bitlen |-> bitlen, flags |-> flags]

\* the SPI call of a poll whose bus claim failed
bus_claim_only == <<SpiOp("dm_spi_claim_bus", 0, "0")>>

\* variant: the bus is not released after the transfer
bus_transfer_no_release ==
    <<SpiOp("dm_spi_claim_bus", 0, "0"),
      SpiOp("dm_spi_xfer", 0, "SPI_XFER_BEGIN"),
      SpiOp("dm_spi_xfer", sizeof_packet * 8, "0"),
      SpiOp("dm_spi_xfer", 0, "SPI_XFER_END")>>

\* the SPI calls of a poll whose bus claim succeeded
bus_transfer ==
    <<SpiOp("dm_spi_claim_bus", 0, "0"),
      SpiOp("dm_spi_xfer", 0, "SPI_XFER_BEGIN"),
      SpiOp("dm_spi_xfer", sizeof_packet * 8, "0"),
      SpiOp("dm_spi_xfer", 0, "SPI_XFER_END"),
      SpiOp("dm_spi_release_bus", 0, "0")>>

\* the statements of a poll up to and including the framing test
steps_transfer ==
    <<"memset", "dm_spi_claim_bus", "dm_spi_xfer", "dm_spi_xfer",
      "dm_spi_xfer", "dm_spi_release_bus", "check">>

\* the statements of the accepting branch, given the events it emitted
steps_accept(log) ==
    <<"memcpy_new">> \o [n \in DOMAIN log |-> "input_add_keycode"]
                     \o <<"memcpy_old">>

\* the keycodes whose most recent event is recorded
HistoryKeys ==
    (4 .. MaxKey) \cup {HID_KEY_LEFTCTRL, HID_KEY_LEFTSHIFT,
                        HID_KEY_RIGHTCTRL, HID_KEY_RIGHTSHIFT}

\* the press state per keycode after the events of log have followed the
\* history last; with only_mod, the events of the modifier service alone
after_events(last, log, only_mod) ==
    [k \in HistoryKeys |->
        LET hits == {n \in DOMAIN log :
                        /\ log[n].keycode = k
                        /\ only_mod => log[n].slot = -1}
        IN  IF hits = {} THEN last[k]
            ELSE ~log[CHOOSE n \in hits : \A h \in hits : h <= n].release]

\* apple_spi_kbd_check(): one poll.  claim_ret is the result of
\* dm_spi_claim_bus(), xfer_ret the results of the three dm_spi_xfer()
\* calls (which the function does not look at), pkt the packet buffer
\* after the transfer.
apple_spi_kbd_check(claim_ret, xfer_ret, pkt) ==
    /\ old_entry' = old
    /\ new_entry' = new
    /\ IF claim_ret < 0
       THEN /\ packet' = ZeroPacket
            /\ bus' = bus_claim_only
            /\ spi_ret' = [claim |-> claim_ret, xfer |-> <<>>]
            /\ steps' = <<"memset", "dm_spi_claim_bus">>
            /\ ret' = claim_ret
            /\ events' = <<>>
            /\ UNCHANGED <<old, new>>
       ELSE /\ packet' = pkt
            /\ bus' = bus_transfer
            /\ spi_ret' = [claim |-> claim_ret, xfer |-> xfer_ret]
            /\ IF packet_ok(pkt)
               THEN \E r \in {accept_report([old |-> old, new |-> new],
                                            pkt.report)} :
                        /\ old' = r.old
                        /\ new' = r.new
                        /\ events' = r.events
                        /\ steps' = steps_transfer \o steps_accept(r.events)
                        /\ ret' = 1
               ELSE /\ events' = <<>>
                    /\ steps' = steps_transfer
                    /\ ret' = 0
                    /\ UNCHANGED <<old, new>>
    /\ last_frame' = IF ret' = 1 THEN packet'.report ELSE last_frame
    /\ last_any' = after_events(last_any, events', FALSE)
    /\ last_mod' = after_events(last_mod, events', TRUE)
    /\ UNCHANGED <<xl_vars, utf8_vars>>

---------------------------------------------------------------------------
(* Inputs *)

\* modifier bytes: every combination of the four tracked bits, and some
\* bytes with untracked bits (alt, GUI) set
TrackedMods ==
    {a + b + c + d : a \in {0, HID_MOD_LEFTCTRL}, b \in {0, HID_MOD_LEFTSHIFT},
                     c \in {0, HID_MOD_RIGHTCTRL}, d \in {0, HID_MOD_RIGHTSHIFT}}

ModSet == TrackedMods \cup {t + u : t \in {0, 1, 51}, u \in {4, 8, 64, 128, 204}}

\* values a key slot may hold: empty, and ordinary keycodes
KeyValues == {0} \cup (4 .. MaxKey)

\* keycode arrays: every pattern of empty slots and slots holding keycode
\* 4 (duplicates included), with at most one slot holding another value
BaseArrays == [Slots -> {0, 4}]

KeyArrays ==
    BaseArrays \cup
    {[b EXCEPT ![i] = v] : b \in BaseArrays, i \in Slots, v \in KeyValues}

\* reports that vary the key slots
KeyReports == {Report(KBD_REPORTID, 0, 0, k, 0) : k \in KeyArrays}

\* reports that vary the modifier byte
ModReports ==
    {Report(KBD_REPORTID, m, 0, k, 0) :
        m \in ModSet,
        k \in {NoKeys, Arr(<<HID_KEY_LEFTCTRL, 0, 0, 0, 0, 0>>)}}

\* reports that vary the bytes the driver never reads
AuxReports ==
    {Report(KBD_REPORTID, m, rs, k, f) :
        m \in {0, 4}, rs \in 0 .. MaxAux, f \in 0 .. MaxAux,
        k \in {NoKeys, Arr(<<4, 0, 0, 0, 0, 0>>)}}

ReportSet == KeyReports \cup ModReports \cup AuxReports

\* the reports of the poll-loop specification
LoopReports ==
    {Report(KBD_REPORTID, m, 0, k, 0) :
        m \in {0, 1, 34, 4},
        k \in {NoKeys,
               Arr(<<4, 0, 0, 0, 0, 0>>),
               Arr(<<0, 4, 0, 0, 0, 0>>),
               Arr(<<4, 5, 0, 0, 0, 0>>),
               Arr(<<5, 4, 4, 4, 4, 4>>),
               Arr(<<HID_KEY_LEFTCTRL, 4, 0, 0, 0, 0>>)}}
    \cup {Report(KBD_REPORTID, 0, rs, NoKeys, f) :
            rs \in 0 .. MaxAux, f \in 0 .. MaxAux}

\* packets with every combination of good and bad framing fields, carrying
\* a report body that is never stored otherwise
HeaderPackets ==
    {Packet(f, d, t, md, c,
            Report(id, 2, 0, Arr(<<5, 4, 0, 0, 0, 0>>), 1)) :
        f \in {0, PACKET_READ, 64}, d \in {0, KBD_DEVICE},
        t \in {0, MSG_REPORT}, md \in {0, KBD_DEVICE},
        c \in {0, sizeof_report, sizeof_report + 1},
        id \in {0, KBD_REPORTID}}

LoopPackets ==
    {ValidPacket(r) : r \in LoopReports} \cup HeaderPackets \cup {ZeroPacket}

\* failures of dm_spi_claim_bus(): negative errno values
ClaimErrs == {-5, -16}

\* the three dm_spi_xfer() calls (BEGIN, read, END) all succeeded
XferOk == <<0, 0, 0>>

\* results of the three dm_spi_xfer() calls with at least one failure
XferFailures == {<<a, b, c>> : a, b, c \in {0, -5}} \ {XferOk}

\* what the buffer may hold after a transfer with a failed step: what
\* memset left, a well-framed report, or an ill-framed packet
FailPackets ==
    {ZeroPacket,
     ValidPacket(Report(KBD_REPORTID, 1, 0, Arr(<<4, 5, 0, 0, 0, 0>>), 0)),
     Packet(64, KBD_DEVICE, MSG_REPORT, KBD_DEVICE, sizeof_report,
            Report(KBD_REPORTID, 2, 0, Arr(<<5, 4, 0, 0, 0, 0>>), 1))}

---------------------------------------------------------------------------
(* The poll loop *)

\* no keycode has been handed to the translation
XlateIdle ==
    /\ xl_key = 0
    /\ xl_mods = 0
    /\ xl_out = <<>>
    /\ xl_called = FALSE

\* no byte has been fed to the UTF-8 decoder
Utf8Idle ==
    /\ esc = 0
    /\ esc_entry = 0
    /\ fed = <<>>
    /\ rets = <<>>

\* the private data as allocated (zeroed, priv_auto) and no poll made
KbdIdle ==
    /\ old = ZeroReport
    /\ new = ZeroReport
    /\ packet = ZeroPacket
    /\ events = <<>>
    /\ ret = 0
    /\ bus = <<>>
    /\ old_entry = ZeroReport
    /\ new_entry = ZeroReport
    /\ spi_ret = [claim |-> 0, xfer |-> <<>>]
    /\ steps = <<>>
    /\ last_frame = ZeroReport
    /\ last_any = [k \in HistoryKeys |-> FALSE]
    /\ last_mod = [k \in HistoryKeys |-> FALSE]

Init ==
    /\ KbdIdle
    /\ XlateIdle
    /\ Utf8Idle

\* a poll whose bus claim fails: the packet buffer stays as memset left it
PollClaimFails ==
    \E c \in ClaimErrs : apple_spi_kbd_check(c, <<>>, ZeroPacket)

\* a poll whose transfer ran: the buffer holds what the controller sent
PollTransfer == \E p \in LoopPackets : apple_spi_kbd_check(0, XferOk, p)

\* a poll with a failed transfer step
PollTransferFails ==
    \E x \in XferFailures, p \in FailPackets : apple_spi_kbd_check(0, x, p)

Next == PollClaimFails \/ PollTransfer \/ PollTransferFails

Spec == Init /\ [][Next]_vars

---------------------------------------------------------------------------
(* One accepted poll, for every pair of reports *)

\* the driver holds r as priv->old and priv->new and has not polled since
InitDiff ==
    /\ old \in ReportSet
    /\ new = old
    /\ packet = ZeroPacket
    /\ events = <<>>
    /\ ret = 0
    /\ bus = <<>>
    /\ old_entry = old
    /\ new_entry = old
    /\ spi_ret = [claim |-> 0, xfer |-> <<>>]
    /\ steps = <<>>
    /\ last_frame = old
    /\ last_any = [k \in HistoryKeys |-> FALSE]
    /\ last_mod = [k \in HistoryKeys |-> FALSE]
    /\ XlateIdle
    /\ Utf8Idle

DiffPoll ==
    /\ bus = <<>>
    /\ \E r \in ReportSet : apple_spi_kbd_check(0, XferOk, ValidPacket(r))

NextDiff == DiffPoll

SpecDiff == InitDiff /\ [][NextDiff]_vars

---------------------------------------------------------------------------
(* Keycode translation *)

\* the translation tables, indexed by keycode from 0 (element k + 1 of
\* the sequence is the entry of keycode k); characters as byte values

\* variant: the table stops one entry early, before '/'
hid_kbd_plain_xlate_short ==
    <<255, 255, 255, 255,  97,  98,  99, 100,
      101, 102, 103, 104, 105, 106, 107, 108,
      109, 110, 111, 112, 113, 114, 115, 116,
      117, 118, 119, 120, 121, 122,  49,  50,
       51,  52,  53,  54,  55,  56,  57,  48,
       13,  27,   8,   9,  32,  45,  61,  91,
       93,  92,  35,  59,  39,  96,  44,  46>>

hid_kbd_plain_xlate ==
    <<255, 255, 255, 255,  97,  98,  99, 100,
      101, 102, 103, 104, 105, 106, 107, 108,
      109, 110, 111, 112, 113, 114, 115, 116,
      117, 118, 119, 120, 121, 122,  49,  50,
       51,  52,  53,  54,  55,  56,  57,  48,
       13,  27,   8,   9,  32,  45,  61,  91,
       93,  92,  35,  59,  39,  96,  44,  46,
       47>>

hid_kbd_shift_xlate ==
    <<255, 255, 255, 255,  65,  66,  67,  68,
       69,  70,  71,  72,  73,  74,  75,  76,
       77,  78,  79,  80,  81,  82,  83,  84,
       85,  86,  87,  88,  89,  90,  33,  64,
       35,  36,  37,  94,  38,  42,  40,  41,
       13,  27,   8,   9,  32,  95,  43, 123,
      125, 124, 126,  58,  34, 126,  60,  62,
       63>>

hid_kbd_ctrl_xlate ==
    <<255, 255, 255, 255,   1,   2,   3,   4,
        5,   6,   7,   8,   9,  10,  11,  12,
       13,  14,  15,  16,  17,  18,  19,  20,
       21,  22,  23,  24,  25,  26,  49,   0,
       51,  52,  53,  30,  55,  56,  57,  48,
       13,  27,   8,   9,  32,  31,  61,  27,
       29,  28,  35,  59,  39,  96,  44,  46,
       47>>

\* ARRAY_SIZE()
ARRAY_SIZE(a) == Len(a)

\* input_add_table(): appends a binding of a table to the two modifier
\* keycodes that activate it (-1, -1: the table in force when no other is)
input_add_table(config, left_keycode, right_keycode, xlate, num_entries) ==
    Append(config, [left_keycode |-> left_keycode,
                    right_keycode |-> right_keycode,
                    xlate |-> xlate,
                    num_entries |-> num_entries])

\* variant: the shift table registered after the ctrl table
apple_spi_kbd_probe_shift_last ==
    input_add_table(
        input_add_table(
            input_add_table(<<>>, -1, -1,
                hid_kbd_plain_xlate, ARRAY_SIZE(hid_kbd_plain_xlate)),
            HID_KEY_LEFTCTRL, HID_KEY_RIGHTCTRL,
            hid_kbd_ctrl_xlate, ARRAY_SIZE(hid_kbd_ctrl_xlate)),
        HID_KEY_LEFTSHIFT, HID_KEY_RIGHTSHIFT,
        hid_kbd_shift_xlate, ARRAY_SIZE(hid_kbd_shift_xlate))

\* apple_spi_kbd_probe(): the bindings it registers with the input layer,
\* in registration order
apple_spi_kbd_probe ==
    input_add_table(
        input_add_table(
            input_add_table(<<>>, -1, -1,
                hid_kbd_plain_xlate, ARRAY_SIZE(hid_kbd_plain_xlate)),
            HID_KEY_LEFTSHIFT, HID_KEY_RIGHTSHIFT,
            hid_kbd_shift_xlate, ARRAY_SIZE(hid_kbd_shift_xlate)),
        HID_KEY_LEFTCTRL, HID_KEY_RIGHTCTRL,
        hid_kbd_ctrl_xlate, ARRAY_SIZE(hid_kbd_ctrl_xlate))

\* the modifier bit the driver pairs with a modifier keycode (the four
\* pairs of apple_spi_kbd_service_modifiers()), 0 for any other keycode
modifier_mask(key) ==
    CASE key = HID_KEY_LEFTCTRL   -> HID_MOD_LEFTCTRL
      [] key = HID_KEY_LEFTSHIFT  -> HID_MOD_LEFTSHIFT
      [] key = HID_KEY_RIGHTCTRL  -> HID_MOD_RIGHTCTRL
      [] key = HID_KEY_RIGHTSHIFT -> HID_MOD_RIGHTSHIFT
      [] OTHER -> 0

\* a binding is active when it is the default one or one of its two
\* modifier keys is held
binding_active(b, modifiers) ==
    \/ b.left_keycode = -1
    \/ BitAnd(modifiers, modifier_mask(b.left_keycode)) # 0
    \/ BitAnd(modifiers, modifier_mask(b.right_keycode)) # 0

\* table selection: of the active bindings, the one registered last
select_table(config, modifiers) ==
    LET act == {n \in DOMAIN config : binding_active(config[n], modifiers)}
    IN  config[CHOOSE n \in act : \A h \in act : h <= n]

\* translate(): the character for a keycode under a modifier byte, as a
\* sequence of at most one character.  The tables start at keycode 0 with
\* four unmapped entries, so the entry of a keycode is xlate[keycode].
translate(keycode, modifiers) ==
    LET table == select_table(apple_spi_kbd_probe, modifiers)
    IN  IF keycode < table.num_entries /\ table.xlate[keycode + 1] # 255
        THEN <<table.xlate[keycode + 1]>>
        ELSE <<>>

\* the keycodes and modifier bytes a caller can pass: any byte
Bytes == 0 .. 255

\* a keycode and a modifier byte are chosen; the lookup has not run
InitXlate ==
    /\ KbdIdle
    /\ Utf8Idle
    /\ xl_key \in Bytes
    /\ xl_mods \in Bytes
    /\ xl_out = <<>>
    /\ xl_called = FALSE

\* one call of translate()
Translate ==
    /\ ~xl_called
    /\ xl_out' = translate(xl_key, xl_mods)
    /\ xl_called' = TRUE
    /\ UNCHANGED <<xl_key, xl_mods, kbd_vars, utf8_vars>>

NextXlate == Translate

SpecXlate == InitXlate /\ [][NextXlate]_vars

---------------------------------------------------------------------------
(* The UTF-8 to code page 437 converter, drivers/video/utf8_cp437.c *)

\* code_points_00a0[]: CP437 for U+00A0 .. U+00FF
code_points_00a0 ==
    <<255, 173, 155, 156,   7, 157,   7,  21,
        7,   7, 166, 174, 170,   7,   7,   7,
      248, 241, 253,   7,   7, 230,  20, 250,
        7,   7, 167, 175, 172, 171,   7, 168,
        7,   7,   7,   7, 142, 143, 146, 128,
        7, 144,   7,   7,   7,   7,   7,   7,
        7, 165,   7,   7,   7,   7, 153,   7,
        7,   7,   7,   7, 154,   7,   7, 225,
      133, 160, 131,   7, 132, 134, 145, 135,
      138, 130, 136, 137, 141, 161, 140, 139,
        7, 164, 149, 162, 147,   7, 148, 246,
        7, 151, 163, 150, 129,   7,   7, 152>>

\* code_points_2550[]: CP437 for the box drawings U+2550 .. U+256C
code_points_2550 ==
    <<205, 186, 213, 214, 201, 184, 183, 187,
      212, 211, 200, 190, 189, 188, 198, 199,
      204, 181, 182, 185, 209, 210, 203, 207,
      208, 202, 216, 215, 206>>

\* utf8_convert_11bit(): the mapped code points below U+0800
utf8_convert_11bit(code) ==
    CASE
         code =   402 -> 159
      [] code =   915 -> 226
      [] code =   920 -> 233
      [] code =   931 -> 228
      [] code =   934 -> 232
      [] code =   937 -> 234
      [] code =   945 -> 224
      [] code =   948 -> 235
      [] code =   949 -> 238
      [] code =   960 -> 227
      [] code =   963 -> 229
      [] code =   964 -> 231
      [] code =   966 -> 237
      [] OTHER -> 0

\* utf8_convert_2xxx(): the mapped code points from U+2000 on
utf8_convert_2xxx(code) ==
    CASE
         code =  8226 -> 7
      [] code =  8252 -> 19
      [] code =  8319 -> 252
      [] code =  8359 -> 158
      [] code =  8592 -> 27
      [] code =  8593 -> 24
      [] code =  8594 -> 26
      [] code =  8595 -> 25
      [] code =  8596 -> 29
      [] code =  8597 -> 18
      [] code =  8616 -> 23
      [] code =  8729 -> 249
      [] code =  8730 -> 251
      [] code =  8734 -> 236
      [] code =  8735 -> 28
      [] code =  8745 -> 239
      [] code =  8776 -> 247
      [] code =  8801 -> 240
      [] code =  8804 -> 243
      [] code =  8805 -> 242
      [] code =  8976 -> 169
      [] code =  8992 -> 244
      [] code =  8993 -> 245
      [] code =  9472 -> 196
      [] code =  9474 -> 179
      [] code =  9484 -> 218
      [] code =  9488 -> 191
      [] code =  9492 -> 192
      [] code =  9496 -> 217
      [] code =  9500 -> 195
      [] code =  9508 -> 180
      [] code =  9516 -> 194
      [] code =  9524 -> 193
      [] code =  9532 -> 197
      [] code =  9600 -> 223
      [] code =  9604 -> 220
      [] code =  9608 -> 219
      [] code =  9612 -> 221
      [] code =  9616 -> 222
      [] code =  9617 -> 176
      [] code =  9618 -> 177
      [] code =  9619 -> 178
      [] code =  9632 -> 254
      [] code =  9644 -> 22
      [] code =  9650 -> 30
      [] code =  9658 -> 16
      [] code =  9660 -> 31
      [] code =  9668 -> 17
      [] code =  9675 -> 9
      [] code =  9688 -> 8
      [] code =  9689 -> 10
      [] code =  9786 -> 1
      [] code =  9787 -> 2
      [] code =  9788 -> 15
      [] code =  9792 -> 12
      [] code =  9794 -> 11
      [] code =  9824 -> 6
      [] code =  9827 -> 5
      [] code =  9829 -> 3
      [] code =  9830 -> 4
      [] code =  9834 -> 13
      [] code =  9835 -> 14
      [] OTHER -> 0

\* convert_uc16_to_cp437(): the CP437 character of a 16-bit code point
convert_uc16_to_cp437(code) ==
    IF code < 127 THEN code
    ELSE IF code < 160 THEN code
    ELSE IF code < 256 THEN code_points_00a0[code - 160 + 1]
    ELSE IF code < 2048 THEN utf8_convert_11bit(code)
    ELSE IF code >= 9552 /\ code < 9581 THEN code_points_2550[code - 9552 + 1]
    ELSE utf8_convert_2xxx(code)

\* a | b on values below 2^31
RECURSIVE BitOr32(_, _)
BitOr32(a, b) ==
    IF a = 0 THEN b
    ELSE IF b = 0 THEN a
    ELSE (IF a % 2 = 1 \/ b % 2 = 1 THEN 1 ELSE 0)
         + 2 * BitOr32(a \div 2, b \div 2)

\* whether (shift << 24) and (payload << (shift * 6)) are defined for the
\* int operands of the continuation case: no negative operand, no shift
\* count of 32 or more, no result beyond INT_MAX
shifts_defined(shift, payload) ==
    /\ shift >= 1
    /\ shift <= 5
    /\ shift = 5 => payload <= 1

\* values *esc may hold after a continuation byte whose shifts are
\* undefined
EscUndefined == {0, 2^24, 2147483647}

\* variant: the payload of a three-byte lead is shifted by 6, not 12
convert_utf8_to_cp437_short_shift(c, e) ==
    LET hi == (c \div 16) * 16
        shift == (e \div 2^24) - 1
        ucs == (e % 2^24) % 2^16
    IN  IF c < 127 THEN {[ret |-> c, esc |-> e]}
        ELSE IF c = 127 THEN {[ret |-> 8, esc |-> e]}
        ELSE IF hi \in {192, 208}
        THEN {[ret |-> 0, esc |-> BitOr32(1 * 2^24, (c % 32) * 2^6)]}
        ELSE IF hi = 224
        THEN {[ret |-> 0, esc |-> BitOr32(2 * 2^24, (c % 16) * 2^6)]}
        ELSE IF hi = 240
        THEN {[ret |-> 0, esc |-> BitOr32(3 * 2^24, (c % 8) * 2^18)]}
        ELSE IF shift # 0
        THEN IF shifts_defined(shift, c % 64)
             THEN {[ret |-> 0,
                    esc |-> BitOr32(BitOr32(shift * 2^24, ucs),
                                    (c % 64) * 2^(shift * 6))]}
             ELSE {[ret |-> 0, esc |-> x] : x \in EscUndefined}
        ELSE {[ret |-> convert_uc16_to_cp437(BitOr32(ucs, c % 64)),
               esc |-> 0]}

\* convert_utf8_to_cp437(c, esc): c is the byte, e the value of *esc on
\* entry; yields the possible results [ret, esc], ret the return value and
\* esc the value of *esc on exit
convert_utf8_to_cp437(c, e) ==
    LET hi == (c \div 16) * 16
        shift == (e \div 2^24) - 1
        ucs == (e % 2^24) % 2^16
    IN  IF c < 127 THEN {[ret |-> c, esc |-> e]}
        ELSE IF c = 127 THEN {[ret |-> 8, esc |-> e]}
        ELSE IF hi \in {192, 208}
        THEN {[ret |-> 0, esc |-> BitOr32(1 * 2^24, (c % 32) * 2^6)]}
        ELSE IF hi = 224
        THEN {[ret |-> 0, esc |-> BitOr32(2 * 2^24, (c % 16) * 2^12)]}
        ELSE IF hi = 240
        THEN {[ret |-> 0, esc |-> BitOr32(3 * 2^24, (c % 8) * 2^18)]}
        ELSE IF shift # 0
        THEN IF shifts_defined(shift, c % 64)
             THEN {[ret |-> 0,
                    esc |-> BitOr32(BitOr32(shift * 2^24, ucs),
                                    (c % 64) * 2^(shift * 6))]}
             ELSE {[ret |-> 0, esc |-> x] : x \in EscUndefined}
        ELSE {[ret |-> convert_uc16_to_cp437(BitOr32(ucs, c % 64)),
               esc |-> 0]}

\* values of *esc before the first byte: idle, in the middle of a
\* two-byte and of a three-byte sequence, and one no sequence produces
EscSamples == {0, 1 * 2^24 + 64, 2 * 2^24 + 4096, 7 * 2^24 + 703710}

\* the bytes fed next: any first byte; after a two-byte lead one
\* continuation byte, after a three-byte lead two
NextBytes ==
    IF fed = <<>> THEN Bytes
    ELSE IF Len(fed) = 1 /\ fed[1] \in 192 .. 239 THEN 128 .. 191
    ELSE IF Len(fed) = 2 /\ fed[1] \in 224 .. 239 THEN 128 .. 191
    ELSE {}

\* the caller holds some *esc and has fed no byte
InitUtf8 ==
    /\ KbdIdle
    /\ XlateIdle
    /\ esc \in EscSamples
    /\ esc_entry = esc
    /\ fed = <<>>
    /\ rets = <<>>

\* one call of convert_utf8_to_cp437()
Feed ==
    \E c \in NextBytes :
        \E r \in convert_utf8_to_cp437(c, esc) :
            /\ esc' = r.esc
            /\ fed' = Append(fed, c)
            /\ rets' = Append(rets, r.ret)
            /\ UNCHANGED <<esc_entry, kbd_vars, xl_vars>>

NextUtf8 == Feed

SpecUtf8 == InitUtf8 /\ [][NextUtf8]_vars

---------------------------------------------------------------------------
(* Vocabulary of the properties *)

\* the poll of the current state ran its transfer
Transferred == bus = bus_transfer

\* the poll of the current state accepted its packet
Accepted == Transferred /\ ret = 1

\* the values held by the slots of keycode array a
Values(a) == {a[i] : i \in Slots}

\* the nonzero values held by the slots of keycode array a
Held(a) == Values(a) \ {0}

\* the number of slots of a that hold v
Occurs(a, v) == Cardinality({i \in Slots : a[i] = v})

\* bit n of modifier byte m is set
HasBit(m, n) == (m \div (2 ^ n)) % 2 = 1

\* the events as (keycode, pressed) pairs
Pairs(log) == [n \in DOMAIN log |-> <<log[n].keycode, ~log[n].release>>]

\* the number of events of log that satisfy Test
CountEv(log, Test(_)) == Cardinality({n \in DOMAIN log : Test(log[n])})

\* the tracked modifier bits: bit number and keycode
TrackedBits == {<<0, 224>>, <<1, 225>>, <<4, 228>>, <<5, 229>>}

---------------------------------------------------------------------------
(* C1 *)

\* the six framing checks, with the values the claim states
C1_AllChecks ==
    /\ packet.flags = 32
    /\ packet.device = 1
    /\ packet.msg_type = 16
    /\ packet.msg_device = 1
    /\ packet.cmdlen = 10
    /\ packet.report.reportid = 1

\* C1: a poll that received a packet accepts it (returns 1 and stores its
\* report) if and only if all six framing checks hold; for every other
\* packet the poll emits no event, returns 0 and leaves priv->old and
\* priv->new as they were on entry.
C1_FrameAcceptance ==
    Transferred =>
        /\ (ret = 1) <=> C1_AllChecks
        /\ ret = 1 => new = packet.report /\ old = packet.report
        /\ ~C1_AllChecks =>
                /\ ret = 0
                /\ events = <<>>
                /\ old = old_entry
                /\ new = new_entry

\* a packet whose only fault is its flags byte, carrying a report that
\* differs from the stored one, was rejected while a report was stored
C1_Witness ==
    /\ Transferred
    /\ packet.flags # 32
    /\ packet.device = 1 /\ packet.msg_type = 16 /\ packet.msg_device = 1
    /\ packet.cmdlen = 10 /\ packet.report.reportid = 1
    /\ old_entry.keycode = Arr(<<4, 5, 0, 0, 0, 0>>)
    /\ packet.report.keycode # old_entry.keycode
    /\ ret = 0
    /\ old = old_entry

---------------------------------------------------------------------------
(* C2 *)

\* C2: key-slot events are decided by value membership.  After an accepted
\* poll, slot i has a release event (previous.keycode[i], pressed=false)
\* exactly when previous.keycode[i] occurs in no slot of current, a press
\* event (current.keycode[i], pressed=true) exactly when current.keycode[i]
\* occurs in no slot of previous, each at most once, and there is no other
\* key-slot event.
C2_MembershipDecides ==
    Accepted =>
        LET p == old_entry.keycode
            c == new.keycode
        IN  /\ \A i \in Slots :
                    CountEv(events,
                        LAMBDA e : e.slot = i /\ e.release) =
                    (IF p[i] \notin Values(c) THEN 1 ELSE 0)
            /\ \A i \in Slots :
                    CountEv(events,
                        LAMBDA e : e.slot = i /\ ~e.release) =
                    (IF c[i] \notin Values(p) THEN 1 ELSE 0)
            /\ \A n \in DOMAIN events :
                    events[n].slot >= 0 =>
                        /\ events[n].slot \in Slots
                        /\ events[n].keycode =
                                (IF events[n].release
                                 THEN p[events[n].slot]
                                 ELSE c[events[n].slot])

\* key 4 held in two slots is released in both, key 5 is pressed in slot 1
C2_Witness ==
    /\ Accepted
    /\ old_entry.keycode = Arr(<<4, 4, 0, 0, 0, 0>>)
    /\ new.keycode = Arr(<<0, 5, 0, 0, 0, 0>>)
    /\ Pairs(events) = <<<<4, FALSE>>, <<4, FALSE>>, <<5, TRUE>>>>

---------------------------------------------------------------------------
(* C3 *)

\* C3 as stated: for each tracked modifier bit, the events of an accepted
\* poll hold exactly one event with the bit's keycode when the bit differs
\* between previous and current modifiers, pressed exactly when the bit is
\* set in current, and no event with that keycode when the bit is equal.
C3_Original ==
    Accepted =>
        \A b \in TrackedBits :
            LET was == HasBit(old_entry.modifiers, b[1])
                is == HasBit(new.modifiers, b[1])
            IN  /\ CountEv(events, LAMBDA e : e.keycode = b[2]) =
                        (IF was # is THEN 1 ELSE 0)
                /\ \A n \in DOMAIN events :
                        events[n].keycode = b[2] => (~events[n].release) = is

\* C3 as amended: for each tracked modifier bit, the modifier service of
\* an accepted poll emits exactly one event with the bit's keycode when the
\* bit differs between previous and current modifiers, pressed exactly
\* when the bit is set in current, and none when the bit is equal; when
\* neither report holds that keycode in a key slot, these are the only
\* events with that keycode.
C3_ModifierEvents ==
    Accepted =>
        \A b \in TrackedBits :
            LET was == HasBit(old_entry.modifiers, b[1])
                is == HasBit(new.modifiers, b[1])
            IN  /\ CountEv(events,
                        LAMBDA e : e.slot = -1 /\ e.keycode = b[2]) =
                        (IF was # is THEN 1 ELSE 0)
                /\ \A n \in DOMAIN events :
                        (events[n].slot = -1 /\ events[n].keycode = b[2])
                            => (~events[n].release) = is
                /\ \A n \in DOMAIN events :
                        events[n].slot = -1 =>
                            \E t \in TrackedBits : events[n].keycode = t[2]
                /\ (b[2] \notin Values(old_entry.keycode) \cup
                                 Values(new.keycode))
                        => CountEv(events, LAMBDA e : e.keycode = b[2]) =
                                (IF was # is THEN 1 ELSE 0)

\* left-ctrl goes up and right-ctrl goes down while both shifts stay held
C3_Witness ==
    /\ Accepted
    /\ old_entry.modifiers = 1 + 2 + 32
    /\ new.modifiers = 16 + 2 + 32
    /\ old_entry.keycode = NoKeys /\ new.keycode = NoKeys
    /\ Pairs(events) = <<<<224, FALSE>>, <<228, TRUE>>>>

---------------------------------------------------------------------------
(* C4 *)

\* the position of an event in the fixed emission order
C4_Rank(e) ==
    IF e.slot = -1
    THEN CASE e.keycode = 224 -> 0
           [] e.keycode = 228 -> 1
           [] e.keycode = 225 -> 2
           [] e.keycode = 229 -> 3
           [] OTHER -> 0 - 1
    ELSE 4 + 2 * e.slot + (IF e.release THEN 0 ELSE 1)

\* C4: the events of one accepted poll come in a fixed order: modifier
\* events first, in the order left-ctrl, right-ctrl, left-shift,
\* right-shift; then for slot 0, 1, ..., 5 in turn the slot's release event
\* followed by its press event.
C4_EmissionOrder ==
    Accepted =>
        /\ \A n \in DOMAIN events : C4_Rank(events[n]) >= 0
        /\ \A m, n \in DOMAIN events :
                m < n => C4_Rank(events[m]) < C4_Rank(events[n])

\* all four modifiers are released, slot 0 has a release and a press,
\* slot 1 a press
C4_Witness ==
    /\ Accepted
    /\ old_entry.modifiers = 51
    /\ new.modifiers = 0
    /\ old_entry.keycode = Arr(<<224, 0, 0, 0, 0, 0>>)
    /\ new.keycode = Arr(<<5, 4, 0, 0, 0, 0>>)
    /\ Pairs(events) = <<<<224, FALSE>>, <<228, FALSE>>, <<225, FALSE>>,
                         <<229, FALSE>>, <<224, FALSE>>, <<5, TRUE>>,
                         <<4, TRUE>>>>

---------------------------------------------------------------------------
(* C5 *)

\* C5: keycode 0 denotes an empty slot and never generates an event: no
\* event of a poll has keycode 0.
C5_NoZeroEvent ==
    \A n \in DOMAIN events : events[n].keycode # 0

---------------------------------------------------------------------------
(* C6 *)

\* C6: idempotence: an accepted poll whose report is byte-identical to the
\* stored previous report emits no event.
C6_Idempotent ==
    (Accepted /\ new = old_entry) => events = <<>>

\* a report with a duplicated key and empty slots is received again
C6_Witness ==
    /\ Accepted
    /\ new = old_entry
    /\ new.keycode = Arr(<<4, 5, 4, 0, 0, 0>>)
    /\ events = <<>>

---------------------------------------------------------------------------
(* C7 *)

\* C7: rollover tolerance: when current has the modifier byte of previous
\* and its six slots are a permutation of previous's six slots (the same
\* multiset of values), the accepted poll emits no event.
C7_PermutationSilent ==
    ( /\ Accepted
      /\ new.modifiers = old_entry.modifiers
      /\ \A v \in Values(new.keycode) \cup Values(old_entry.keycode) :
            Occurs(new.keycode, v) = Occurs(old_entry.keycode, v) )
        => events = <<>>

\* two held keys were moved to other slots, in the other order
C7_Witness ==
    /\ Accepted
    /\ old_entry.keycode = Arr(<<4, 5, 0, 0, 0, 0>>)
    /\ new.keycode = Arr(<<0, 0, 5, 0, 4, 0>>)
    /\ new.modifiers = old_entry.modifiers
    /\ events = <<>>

---------------------------------------------------------------------------
(* C8 *)

\* the (keycode, pressed) pairs of the release events of log, in order
C8_Releases(log) == Pairs(SelectSeq(log, LAMBDA e : e.release))

\* the (keycode, pressed) pairs of the press events of log, in order
C8_Presses(log) == Pairs(SelectSeq(log, LAMBDA e : ~e.release))

\* a sequence of (keycode, pressed) pairs with every pressed flag inverted
C8_Flip(ps) == [n \in DOMAIN ps |-> <<ps[n][1], ~ps[n][2]>>]

\* the events of the poll in the other direction: the current report
\* stored, the previous report received
C8_Reverse == accept_report([old |-> new, new |-> new], old_entry).events

\* C8: symmetry: the release events of diff(a, b) are, in order, the press
\* events of diff(b, a) with the pressed flag inverted, and the press
\* events of diff(a, b) are the release events of diff(b, a) with the flag
\* inverted, modifier events and key-slot events alike.
C8_Symmetric ==
    Accepted =>
        /\ C8_Flip(C8_Releases(events)) = C8_Presses(C8_Reverse)
        /\ C8_Flip(C8_Presses(events)) = C8_Releases(C8_Reverse)

\* a poll with a modifier release, a modifier press, a key release and a
\* key press
C8_Witness ==
    /\ Accepted
    /\ old_entry.modifiers = 1
    /\ new.modifiers = 2
    /\ old_entry.keycode = Arr(<<224, 0, 0, 0, 0, 0>>)
    /\ new.keycode = NoKeys
    /\ C8_Releases(events) = <<<<224, FALSE>>, <<224, FALSE>>>>
    /\ C8_Presses(events) = <<<<225, TRUE>>>>
    /\ C8_Presses(C8_Reverse) = <<<<224, TRUE>>, <<224, TRUE>>>>

---------------------------------------------------------------------------
(* C9 *)

\* C9 as stated: previous modifiers 0b00000000, current modifiers
\* 0b00100010 and identical key slots give exactly the two events
\* (0xE4, pressed) then (0xE1, pressed).
C9_Original ==
    ( /\ Accepted
      /\ old_entry.modifiers = 0
      /\ new.modifiers = 34
      /\ new.keycode = old_entry.keycode )
        => Pairs(events) = <<<<228, TRUE>>, <<225, TRUE>>>>

\* C9 as amended: previous modifiers 0b00000000, current modifiers
\* 0b00100010 (left-shift and right-shift) and identical key slots give
\* exactly the two events (0xE1, pressed) then (0xE5, pressed); the byte
\* with right-ctrl and left-shift set is 0b00010010, and gives exactly
\* (0xE4, pressed) then (0xE1, pressed).
C9_ModifierExample ==
    ( /\ Accepted
      /\ old_entry.modifiers = 0
      /\ new.keycode = old_entry.keycode )
        => /\ new.modifiers = 34 =>
                Pairs(events) = <<<<225, TRUE>>, <<229, TRUE>>>>
           /\ new.modifiers = 18 =>
                Pairs(events) = <<<<228, TRUE>>, <<225, TRUE>>>>

\* the modifier byte went from 0 to 0b00100010 over unchanged key slots
C9_Witness ==
    /\ Accepted
    /\ old_entry.modifiers = 0
    /\ new.modifiers = 34
    /\ new.keycode = old_entry.keycode
    /\ new.keycode = Arr(<<224, 0, 0, 0, 0, 0>>)
    /\ Len(events) = 2

---------------------------------------------------------------------------
(* C10 *)

\* C10: with modifiers unchanged, a report that adds one nonzero keycode k
\* to those held (k in one slot, every keycode of previous still present)
\* gives exactly the event (k, pressed), and a report that drops one held
\* keycode k (every other keycode still present, nothing added) gives
\* exactly the event (k, released), for every number of held keys.
C10_SingleKeyChange ==
    ( /\ Accepted
      /\ new.modifiers = old_entry.modifiers )
        => LET p == old_entry.keycode
               c == new.keycode
           IN  /\ \A k \in Held(c) \ Held(p) :
                    ( /\ Occurs(c, k) = 1
                      /\ \A v \in Held(p) : Occurs(c, v) = Occurs(p, v)
                      /\ Held(c) = Held(p) \cup {k} )
                        => Pairs(events) = <<<<k, TRUE>>>>
               /\ \A k \in Held(p) \ Held(c) :
                    ( /\ Occurs(p, k) = 1
                      /\ \A v \in Held(c) : Occurs(c, v) = Occurs(p, v)
                      /\ Held(c) = Held(p) \ {k} )
                        => Pairs(events) = <<<<k, FALSE>>>>

---------------------------------------------------------------------------
(* C11 *)

\* the poll of the current state made no event and left priv as it was
C11_NothingDone ==
    /\ events = <<>>
    /\ old = old_entry
    /\ new = new_entry

\* the number of calls of op on the bus in the poll of the current state
C11_Calls(op) == Cardinality({n \in DOMAIN bus : bus[n].op = op})

\* C11: when a bus call of a poll fails (the claim of the bus, or any of
\* the transfer steps), the poll returns that failure unchanged, does not
\* retry, emits no event and leaves both stored reports unchanged.
C11_BusFailurePropagates ==
    /\ spi_ret.claim < 0 =>
            /\ ret = spi_ret.claim
            /\ C11_Calls("dm_spi_claim_bus") = 1
            /\ C11_NothingDone
    /\ \A i \in DOMAIN spi_ret.xfer :
            ( /\ spi_ret.xfer[i] # 0
              /\ \A h \in 1 .. (i - 1) : spi_ret.xfer[h] = 0 )
                => /\ ret = spi_ret.xfer[i]
                   /\ C11_Calls("dm_spi_claim_bus") = 1
                   /\ C11_Calls("dm_spi_xfer") <= 3
                   /\ C11_NothingDone

---------------------------------------------------------------------------
(* C12: table selection by fixed priority *)

C12_Ctrl == HasBit(xl_mods, 0) \/ HasBit(xl_mods, 4)

C12_Shift == HasBit(xl_mods, 1) \/ HasBit(xl_mods, 5)

\* the character a table holds for the keycode looked up
C12_Entry(table) ==
    IF table[xl_key + 1] = 255 THEN <<>> ELSE <<table[xl_key + 1]>>

\* C12: the lookup uses the ctrl table when a ctrl bit (left or right) is
\* held, even with a shift bit held too; otherwise the shift table when a
\* shift bit is held; otherwise the plain table.  Keycode 4 gives 0x01
\* with ctrl held, 'A' with only shift held and 'a' with neither, and the
\* same priority holds for every keycode the tables cover.
C12_TablePriority ==
    xl_called =>
        /\ xl_key < ARRAY_SIZE(hid_kbd_plain_xlate) =>
               xl_out = IF C12_Ctrl THEN C12_Entry(hid_kbd_ctrl_xlate)
                        ELSE IF C12_Shift THEN C12_Entry(hid_kbd_shift_xlate)
                        ELSE C12_Entry(hid_kbd_plain_xlate)
        /\ xl_key = 4 =>
               xl_out = IF C12_Ctrl THEN <<1>>
                        ELSE IF C12_Shift THEN <<65>>
                        ELSE <<97>>

\* keycode 4 translated with left-ctrl and left-shift both held
C12_Witness ==
    /\ xl_called
    /\ xl_key = 4
    /\ xl_mods = HID_MOD_LEFTCTRL + HID_MOD_LEFTSHIFT
    /\ xl_out = <<1>>

---------------------------------------------------------------------------
(* C13: the keycode range of the tables *)

C13_Tables == {hid_kbd_plain_xlate, hid_kbd_shift_xlate, hid_kbd_ctrl_xlate}

\* the table the priority of C12 selects
C13_Selected ==
    IF C12_Ctrl THEN hid_kbd_ctrl_xlate
    ELSE IF C12_Shift THEN hid_kbd_shift_xlate
    ELSE hid_kbd_plain_xlate

\* the statement with the last covered keycode as a parameter
C13_Range(last) ==
    xl_called =>
        /\ (xl_key \in 0 .. 3 \/ xl_key > last) => xl_out = <<>>
        /\ xl_key \in 4 .. last =>
               /\ \A t \in C13_Tables : xl_key + 1 \in DOMAIN t
               /\ xl_key + 1 \in DOMAIN C13_Selected =>
                      xl_out = IF C13_Selected[xl_key + 1] = 255 THEN <<>>
                               ELSE <<C13_Selected[xl_key + 1]>>
        /\ \A t \in C13_Tables : Len(t) = Len(hid_kbd_plain_xlate)

\* C13 as stated: no character for keycodes 0..3 and above 60; every
\* keycode in 4..60 has an entry in each of the three tables.
C13_Original == C13_Range(60)

\* C13: under every modifier byte translate yields no character for
\* keycodes 0..3, for every keycode above 56 (the modifier keycodes
\* included) and for an entry of 0xFF; every keycode in 4..56 has an entry
\* in each of the three tables, and translate yields that entry of the
\* selected table; the three tables have the same length.
C13_RangeChecked ==
    /\ C13_Range(56)
    /\ xl_called /\ xl_key \in 57 .. 60 => xl_out = <<>>
    /\ xl_called /\ xl_key = 56 =>
           xl_out = IF C12_Ctrl THEN <<47>>
                    ELSE IF C12_Shift THEN <<63>> ELSE <<47>>

\* the last covered keycode, and the first one past the tables
C13_Witness ==
    /\ xl_called
    /\ \/ xl_key = 56 /\ xl_mods = HID_MOD_RIGHTSHIFT /\ xl_out = <<63>>
       \/ xl_key = 57 /\ xl_mods = 0 /\ xl_out = <<>>

---------------------------------------------------------------------------
(* C14: the stored reports at poll boundaries *)

\* the positions of a statement in the last poll
C14_At(stmt) == {n \in DOMAIN steps : steps[n] = stmt}

\* the events of comparing a stored report with a received one
C14_Diff(stored, received) ==
    LET priv == [old |-> stored, new |-> received]
    IN  service_keys(priv, apple_spi_kbd_service_modifiers(priv, <<>>), 0)

\* C14: from zeroed private data, after any sequence of polls priv->old
\* equals priv->new and both equal the report of the most recently accepted
\* frame (all-zero when there was none); a poll that does not accept leaves
\* both as they were; an accepted poll emits the events of comparing the
\* received report with the report stored on entry, and overwrites
\* priv->old only after the last of them.
C14_PollBoundary ==
    /\ old = new
    /\ old = last_frame
    /\ ret # 1 => old = old_entry /\ new = new_entry /\ events = <<>>
    /\ ret = 1 =>
           /\ old = packet.report
           /\ events = C14_Diff(old_entry, packet.report)
           /\ Cardinality(C14_At("memcpy_old")) = 1
    /\ Cardinality(C14_At("input_add_keycode")) = Len(events)
    /\ \A i \in C14_At("memcpy_old"), j \in C14_At("input_add_keycode") :
           j < i
    /\ \A i \in C14_At("memcpy_old"), j \in C14_At("memcpy_new") : j < i

\* an accepted poll with several events, made when a nonzero report was
\* stored
C14_Witness ==
    /\ Accepted
    /\ old_entry # ZeroReport
    /\ old # old_entry
    /\ Len(events) >= 2

---------------------------------------------------------------------------
(* C15: the event stream against the stored report *)

\* the keycodes of ordinary keys whose events are recorded
C15_Keys == HistoryKeys \ {HID_KEY_LEFTCTRL, HID_KEY_LEFTSHIFT,
                           HID_KEY_RIGHTCTRL, HID_KEY_RIGHTSHIFT}

\* for every ordinary keycode, the most recent event is a press exactly
\* when the keycode is in a slot of priv->old
C15_KeysFollow ==
    \A k \in C15_Keys : last_any[k] <=> k \in Values(old.keycode)

\* for every tracked modifier bit, the most recent event recorded in last
\* for its keycode is a press exactly when the bit is set in priv->old
C15_ModifiersFollow(last) ==
    \A b \in TrackedBits :
        last[b[2]] <=> HasBit(old.modifiers, b[1])

\* C15 as stated: the most recent event of any origin decides, for the
\* ordinary keycodes and for the modifier keycodes alike.
C15_Original ==
    /\ C15_KeysFollow
    /\ C15_ModifiersFollow(last_any)

\* C15: after any sequence of polls from zeroed private data, for every
\* nonzero keycode that is not a modifier keycode the most recent event is
\* a press if and only if the keycode occurs in a slot of priv->old; for
\* every tracked modifier bit the most recent event that the modifier
\* comparison emitted for its keycode is a press if and only if the bit is
\* set in priv->old.modifiers.
C15_StreamReconstructs ==
    /\ C15_KeysFollow
    /\ C15_ModifiersFollow(last_mod)

\* after a rejected poll, a repeated keycode is stored and left-ctrl is
\* held, both with a press as their most recent event
C15_Witness ==
    /\ Transferred
    /\ ret = 0
    /\ Occurs(old.keycode, 4) >= 2
    /\ last_any[4]
    /\ BitAnd(old.modifiers, HID_MOD_LEFTCTRL) # 0
    /\ last_mod[HID_KEY_LEFTCTRL]

---------------------------------------------------------------------------
(* C16: the bytes that cause no event *)

\* the four tracked bits of a modifier byte
C16_Tracked(m) ==
    BitAnd(m, HID_MOD_LEFTCTRL + HID_MOD_LEFTSHIFT
              + HID_MOD_RIGHTCTRL + HID_MOD_RIGHTSHIFT)

\* the stored report and the received one agree in the six slots and in
\* the tracked modifier bits
C16_SameTracked ==
    /\ old_entry.keycode = packet.report.keycode
    /\ C16_Tracked(old_entry.modifiers) = C16_Tracked(packet.report.modifiers)

\* C16: when an accepted report differs from the stored one only in the
\* untracked modifier bits (2, 3, 6, 7), the reserved byte or the fn byte,
\* no event is emitted, and priv->old is replaced by the received report,
\* those bytes included.
C16_UntrackedSilent ==
    (Accepted /\ C16_SameTracked) =>
        /\ events = <<>>
        /\ old = packet.report
        /\ old.modifiers = packet.report.modifiers
        /\ old.reserved = packet.report.reserved
        /\ old.fn = packet.report.fn

\* a report with a key held that differs from the stored one in bit 2 of
\* the modifier byte, in the reserved byte and in the fn byte
C16_Witness ==
    /\ Accepted
    /\ C16_SameTracked
    /\ 4 \in Values(old_entry.keycode)
    /\ old_entry.modifiers = 0 /\ packet.report.modifiers = 4
    /\ old_entry.reserved # packet.report.reserved
    /\ old_entry.fn # packet.report.fn
    /\ events = <<>>
    /\ old = packet.report

---------------------------------------------------------------------------
(* C17: the order of the bus operations of a poll *)

\* the positions of an SPI call in the last poll
C17_Ops(op) == {n \in DOMAIN bus : bus[n].op = op}

\* the SPI calls among the statements of the last poll, in order
C17_SpiSteps ==
    SelectSeq(steps, LAMBDA st : st \in {"dm_spi_claim_bus", "dm_spi_xfer",
                                         "dm_spi_release_bus"})

\* the positions of a statement in the last poll
C17_At(stmt) == {n \in DOMAIN steps : steps[n] = stmt}

\* C17: a poll whose claim fails issues no transfer step, does not release
\* the bus and returns the claim error; a poll whose claim succeeds issues
\* BEGIN, one read of 256 bytes and END in that order, then releases the
\* bus exactly once, before the framing test and before any event; the
\* bus is released as often as it was claimed when the poll returns.
C17_BusOrdering ==
    /\ C17_SpiSteps = [n \in DOMAIN bus |-> bus[n].op]
    /\ spi_ret.claim < 0 =>
           /\ C17_Ops("dm_spi_claim_bus") = {1}
           /\ C17_Ops("dm_spi_xfer") = {}
           /\ C17_Ops("dm_spi_release_bus") = {}
           /\ ret = spi_ret.claim
           /\ C17_At("check") = {}
    /\ (bus # <<>> /\ spi_ret.claim >= 0) =>
           /\ C17_Ops("dm_spi_claim_bus") = {1}
           /\ C17_Ops("dm_spi_xfer") = {2, 3, 4}
           /\ bus[2].flags = "SPI_XFER_BEGIN" /\ bus[2].bitlen = 0
           /\ bus[3].flags = "0" /\ bus[3].bitlen = 256 * 8
           /\ bus[4].flags = "SPI_XFER_END" /\ bus[4].bitlen = 0
           /\ C17_Ops("dm_spi_release_bus") = {5}
           /\ Cardinality(C17_At("dm_spi_release_bus")) = 1
           /\ Cardinality(C17_At("check")) = 1
           /\ \A r \in C17_At("dm_spi_release_bus") :
                  \A n \in C17_At("check") \cup C17_At("input_add_keycode")
                            \cup C17_At("memcpy_new") : r < n
    /\ Cardinality(C17_At("input_add_keycode")) = Len(events)
    /\ bus = <<>> => steps = <<>> /\ events = <<>>

\* an accepted poll that emitted events
C17_Witness ==
    /\ Accepted
    /\ Len(bus) = 5
    /\ Len(events) >= 1
    /\ steps[6] = "dm_spi_release_bus"
    /\ steps[7] = "check"

---------------------------------------------------------------------------
(* C18: decoding byte by byte *)

\* C18: whatever *esc held beforehand, a byte below 127 is returned as
\* itself and leaves *esc as it was; a two-byte lead (0xC0..0xDF) followed
\* by one continuation byte, or a three-byte lead (0xE0..0xEF) followed by
\* two, returns 0 for every byte but the last, returns for the last byte
\* convert_uc16_to_cp437 of the code point assembled from the payload bits,
\* and leaves *esc = 0.
C18_ByteByByte ==
    /\ (Len(fed) = 1 /\ fed[1] < 127) =>
           rets = <<fed[1]>> /\ esc = esc_entry
    /\ (Len(fed) >= 1 /\ fed[1] \in 192 .. 239) => rets[1] = 0
    /\ (Len(fed) = 2 /\ fed[1] \in 192 .. 223) =>
           /\ rets[2] = convert_uc16_to_cp437(
                             (fed[1] % 32) * 64 + (fed[2] % 64))
           /\ esc = 0
    /\ (Len(fed) >= 2 /\ fed[1] \in 224 .. 239) => rets[2] = 0
    /\ (Len(fed) = 3 /\ fed[1] \in 224 .. 239) =>
           /\ rets[3] = convert_uc16_to_cp437(
                             (fed[1] % 16) * 4096 + (fed[2] % 64) * 64
                             + (fed[3] % 64))
           /\ esc = 0
    /\ fed = <<195, 169>> => rets = <<0, 130>>
    /\ fed = <<206, 177>> => rets = <<0, 224>>
    /\ fed = <<226, 149, 144>> => rets = <<0, 0, 205>>
    /\ fed = <<226, 150, 136>> => rets[3] = utf8_convert_2xxx(9608)

\* U+2550 decoded from E2 95 90 while *esc held the middle of another
\* sequence beforehand
C18_Witness ==
    /\ esc_entry = 2 * 2^24 + 4096
    /\ fed = <<226, 149, 144>>
    /\ rets = <<0, 0, 205>>
    /\ esc = 0

===========================================================================
